---------------------------- MODULE Spec2Model ----------------------------
(***************************************************************************)
(* A model of zip-to-county: fips_to_county.py (the FIPS resolver) and     *)
(* zip_to_county.py (load the ZIP list, fetch the primary CSV, query the   *)
(* secondary source for the missing ZIPs, merge, build and write the       *)
(* report).  Python strings are TLA+ strings, read as sequences of         *)
(* characters with Len, \o, SubSeq, Head and Tail.                         *)
(***************************************************************************)
EXTENDS Integers, Sequences, FiniteSets, TLC

(***************************************************************************)
(* Bounds of the model.                                                    *)
(***************************************************************************)
\* the longest ZIP list read from the input file
MaxZips == 2
\* the most data rows of the primary CSV
MaxCsvRows == 2
\* the most records of the secondary data frame
MaxRecords == 3
\* the county numbers 0..MaxCountyNum tried under every state prefix
MaxCountyNum == 113

(***************************************************************************)
(* Python's str, set and dict primitives.                                  *)
(***************************************************************************)
\* the characters the model's strings use, in code-point order
CodePoints == "\n\r !\"()+,-./0123456789:;ABCDEFGHIJKLMNOPQRSTUVWXYZabcdefghijklmnopqrstuvwxyz"

CharAt(s, i) == SubSeq(s, i, i)

\* ord(c), up to an order-preserving renumbering
Ord(c) == CHOOSE i \in 1..Len(CodePoints) : CharAt(CodePoints, i) = c

\* s < t for Python strings: the first differing character decides, a proper
\* prefix is smaller
RECURSIVE StrLess(_, _)
StrLess(s, t) ==
    IF Len(t) = 0 THEN FALSE
    ELSE IF Len(s) = 0 THEN TRUE
    ELSE IF Head(s) = Head(t) THEN StrLess(Tail(s), Tail(t))
    ELSE Ord(Head(s)) < Ord(Head(t))

\* sorted(S) with the order turned round
RECURSIVE Sorted_descending(_)
Sorted_descending(S) ==
    IF S = {} THEN <<>>
    ELSE LET m == CHOOSE x \in S : \A y \in S \ {x} : StrLess(y, x)
         IN  <<m>> \o Sorted_descending(S \ {m})

\* sorted(S) for a set of strings
RECURSIVE Sorted(_)
Sorted(S) ==
    IF S = {} THEN <<>>
    ELSE LET m == CHOOSE x \in S : \A y \in S \ {x} : StrLess(x, y)
         IN  <<m>> \o Sorted(S \ {m})

\* sep.join(parts)
RECURSIVE Join(_, _)
Join(sep, parts) ==
    IF Len(parts) = 0 THEN ""
    ELSE IF Len(parts) = 1 THEN parts[1]
    ELSE parts[1] \o sep \o Join(sep, Tail(parts))

\* s.startswith(p)
StartsWith(s, p) == Len(s) >= Len(p) /\ SubSeq(s, 1, Len(p)) = p

\* s.split(sep), sep non-empty: cut at every occurrence, scanning left to right
RECURSIVE SplitFrom(_, _, _)
SplitFrom(s, sep, cur) ==
    IF Len(s) = 0 THEN <<cur>>
    ELSE IF StartsWith(s, sep)
         THEN <<cur>> \o SplitFrom(SubSeq(s, Len(sep) + 1, Len(s)), sep, "")
         ELSE SplitFrom(Tail(s), sep, cur \o Head(s))

Split(s, sep) == SplitFrom(s, sep, "")

\* s.strip()
Whitespace == {" ", "\t", "\n", "\r", "\f"}

RECURSIVE LStrip(_)
LStrip(s) == IF Len(s) > 0 /\ Head(s) \in Whitespace THEN LStrip(Tail(s)) ELSE s

RECURSIVE RStrip(_)
RStrip(s) ==
    IF Len(s) > 0 /\ CharAt(s, Len(s)) \in Whitespace
    THEN RStrip(SubSeq(s, 1, Len(s) - 1)) ELSE s

Strip(s) == RStrip(LStrip(s))

\* s[:n] and s[n:], which clip at the end of s
Take(s, n) == IF Len(s) <= n THEN s ELSE SubSeq(s, 1, n)

Drop(s, n) == IF Len(s) <= n THEN "" ELSE SubSeq(s, n + 1, Len(s))

\* "0" * n
RECURSIVE Zeros(_)
Zeros(n) == IF n <= 0 THEN "" ELSE "0" \o Zeros(n - 1)

\* s.zfill(width): zeros on the left, after a leading sign
zfill(s, width) ==
    IF Len(s) >= width THEN s
    ELSE IF Len(s) > 0 /\ Head(s) \in {"+", "-"}
         THEN Head(s) \o Zeros(width - Len(s)) \o Tail(s)
         ELSE Zeros(width - Len(s)) \o s

Digits == "0123456789"

\* str(n) for an int n
RECURSIVE NatToStr(_)
NatToStr(n) ==
    IF n < 10 THEN CharAt(Digits, n + 1)
    ELSE NatToStr(n \div 10) \o CharAt(Digits, (n % 10) + 1)

IntToStr(n) == IF n < 0 THEN "-" \o NatToStr(-n) ELSE NatToStr(n)

\* a value of type `str | int` carries its type
PyInt(n) == [type |-> "int", val |-> n]

PyStr(s) == [type |-> "str", val |-> s]

\* str(v) for a str or an int
str(v) == IF v.type = "int" THEN IntToStr(v.val) ELSE v.val

IsDigit(c) == \E i \in 1..10 : CharAt(Digits, i) = c

DigitVal(c) == (CHOOSE i \in 1..10 : CharAt(Digits, i) = c) - 1

AllDigits(s) == Len(s) > 0 /\ \A i \in 1..Len(s) : IsDigit(CharAt(s, i))

\* int(s) accepts an optional sign and decimal digits, and raises ValueError
\* otherwise (the tokens of load_zip_list hold no whitespace)
IsIntLiteral(s) ==
    IF Len(s) > 0 /\ Head(s) \in {"+", "-"} THEN AllDigits(Tail(s)) ELSE AllDigits(s)

RECURSIVE DigitsToNat(_, _)
DigitsToNat(s, acc) ==
    IF Len(s) = 0 THEN acc ELSE DigitsToNat(Tail(s), 10 * acc + DigitVal(Head(s)))

int(s) ==
    IF Head(s) = "-" THEN 0 - DigitsToNat(Tail(s), 0)
    ELSE IF Head(s) = "+" THEN DigitsToNat(Tail(s), 0)
    ELSE DigitsToNat(s, 0)

\* d.get(k): the value in a set, or the empty set for None
Get(d, k) == IF k \in DOMAIN d THEN {d[k]} ELSE {}

\* `not v` for the result of d.get: None or the empty string
Falsy(opt) == opt = {} \/ opt = {""}

Value(opt) == CHOOSE v \in opt : TRUE

\* the empty dict
EmptyDict == <<>>

\* d.update(other): other's entries win
DictUpdate(d, other) ==
    [k \in DOMAIN d \cup DOMAIN other |-> IF k \in DOMAIN other THEN other[k] ELSE d[k]]

(***************************************************************************)
(* fips_to_county.py                                                       *)
(***************************************************************************)
STATE_FIPS == ("06" :> "CA") @@ ("36" :> "NY") @@ ("48" :> "TX")

CA_COUNTIES ==
    ("001" :> "Alameda") @@ ("013" :> "Contra Costa") @@ ("019" :> "Fresno") @@
    ("029" :> "Kern") @@ ("037" :> "Los Angeles") @@ ("041" :> "Marin") @@
    ("053" :> "Monterey") @@ ("055" :> "Napa") @@ ("059" :> "Orange") @@
    ("061" :> "Placer") @@ ("065" :> "Riverside") @@ ("067" :> "Sacramento") @@
    ("071" :> "San Bernardino") @@ ("073" :> "San Diego") @@
    ("075" :> "San Francisco") @@ ("077" :> "San Joaquin") @@
    ("079" :> "San Luis Obispo") @@ ("081" :> "San Mateo") @@
    ("083" :> "Santa Barbara") @@ ("085" :> "Santa Clara") @@
    ("087" :> "Santa Cruz") @@ ("095" :> "Solano") @@ ("097" :> "Sonoma") @@
    ("099" :> "Stanislaus") @@ ("107" :> "Tulare") @@ ("111" :> "Ventura") @@
    ("113" :> "Yolo")

COUNTY_LOOKUP == ("06" :> CA_COUNTIES)

\* fips_to_county_state with the sentinel built from the code as given
fips_to_county_state_raw_sentinel(fips_code) ==
    LET fips_str    == zfill(str(fips_code), 5)
        state_fips  == Take(fips_str, 2)
        county_fips == Drop(fips_str, 2)
        state_abbr  == Get(STATE_FIPS, state_fips)
        counties    == IF state_fips \in DOMAIN COUNTY_LOOKUP
                       THEN COUNTY_LOOKUP[state_fips] ELSE EmptyDict
        county_name == Get(counties, county_fips)
    IN  IF Falsy(state_abbr) \/ Falsy(county_name)
        THEN "Unknown County (FIPS: " \o str(fips_code) \o ")"
        ELSE Value(county_name) \o " County, " \o Value(state_abbr)

\* fips_to_county_state without the zfill
fips_to_county_state_unpadded(fips_code) ==
    LET fips_str    == str(fips_code)
        state_fips  == Take(fips_str, 2)
        county_fips == Drop(fips_str, 2)
        state_abbr  == Get(STATE_FIPS, state_fips)
        counties    == IF state_fips \in DOMAIN COUNTY_LOOKUP
                       THEN COUNTY_LOOKUP[state_fips] ELSE EmptyDict
        county_name == Get(counties, county_fips)
    IN  IF Falsy(state_abbr) \/ Falsy(county_name)
        THEN "Unknown County (FIPS: " \o fips_str \o ")"
        ELSE Value(county_name) \o " County, " \o Value(state_abbr)

fips_to_county_state(fips_code) ==
    LET fips_str    == zfill(str(fips_code), 5)
        state_fips  == Take(fips_str, 2)
        county_fips == Drop(fips_str, 2)
        state_abbr  == Get(STATE_FIPS, state_fips)
        counties    == IF state_fips \in DOMAIN COUNTY_LOOKUP
                       THEN COUNTY_LOOKUP[state_fips] ELSE EmptyDict
        county_name == Get(counties, county_fips)
    IN  IF Falsy(state_abbr) THEN "Unknown County (FIPS: " \o fips_str \o ")"
        ELSE IF Falsy(county_name) THEN "Unknown County (FIPS: " \o fips_str \o ")"
        ELSE Value(county_name) \o " County, " \o Value(state_abbr)

(***************************************************************************)
(* zip_to_county.py: the pure functions                                    *)
(***************************************************************************)
\* the characters re.split(r"[,\s]+", ...) cuts at
SplitChars == {","} \cup Whitespace

\* load_zip_list: the maximal runs of characters that are neither a comma nor
\* whitespace, in order
RECURSIVE Tokenize(_, _, _)
Tokenize(content, i, cur) ==
    IF i > Len(content) THEN (IF cur = "" THEN <<>> ELSE <<cur>>)
    ELSE IF CharAt(content, i) \in SplitChars
         THEN (IF cur = "" THEN <<>> ELSE <<cur>>) \o Tokenize(content, i + 1, "")
         ELSE Tokenize(content, i + 1, cur \o CharAt(content, i))

load_zip_list(content) == Tokenize(content, 1, "")

\* fetch_zip_data, after the fetch: the loop over the rows of the DictReader
RECURSIVE fetch_zip_data(_, _)
fetch_zip_data(reader, mapping) ==
    IF Len(reader) = 0 THEN mapping
    ELSE LET row     == Head(reader)
             zipcode == zfill(row.zipcode, 5)
             county  == Strip(row.county)
             state   == Strip(row.state_abbr)
             label   == county \o " County, " \o state
         IN  IF county = "" \/ state = ""
             THEN fetch_zip_data(Tail(reader), mapping)
             ELSE fetch_zip_data(Tail(reader),
                      IF zipcode \in DOMAIN mapping
                      THEN [mapping EXCEPT ![zipcode] = @ \cup {label}]
                      ELSE mapping @@ (zipcode :> {label}))

\* the threshold of row['RES_RATIO'] >= 0.5, ratios in hundredths
HalfRatio == 50

\* the test of line 90 as its comment words it: RES_RATIO > 0.5
MajorityRecord_strict(row) == row.RES_RATIO > HalfRatio

\* the test of line 90 on a record
MajorityRecord(row) == row.RES_RATIO >= HalfRatio

\* max() of a non-empty set of dates
MaxDate(S) == CHOOSE d \in S : \A e \in S : e <= d

\* the records of a ZIP the loop keeps: those at the most recent end date
RecentData(zip_data) ==
    LET most_recent == MaxDate({r.VALID_END_DATE : r \in zip_data})
    IN  {r \in zip_data : r.VALID_END_DATE = most_recent}

\* the loop of fetch_redivis_data over zip_codes; int(zip_code) raises
\* ValueError on a token that is no integer literal and the loop is left
RECURSIVE RedivisLoop(_, _, _)
RedivisLoop(zip_codes, df, mapping) ==
    IF Len(zip_codes) = 0 THEN [raised |-> FALSE, mapping |-> mapping, error |-> ""]
    ELSE LET zip_code == Head(zip_codes)
         IN  IF ~IsIntLiteral(zip_code)
             THEN [raised  |-> TRUE,
                   mapping |-> mapping,
                   error   |-> "invalid literal for int() with base 10: '"
                               \o zip_code \o "'"]
             ELSE LET zip_int  == int(zip_code)
                      zip_data == {r \in df : r.ZIP = zip_int}
                      counties == IF zip_data = {} THEN {}
                                  ELSE {fips_to_county_state(PyInt(r.COUNTY)) :
                                          r \in {q \in RecentData(zip_data) :
                                                   MajorityRecord(q)}}
                  IN  IF counties = {}
                      THEN RedivisLoop(Tail(zip_codes), df, mapping)
                      ELSE RedivisLoop(Tail(zip_codes), df,
                               DictUpdate(mapping, zip_code :> counties))

\* fetch_redivis_data returning what the loop had built when it raised
fetch_redivis_data_partial(zip_codes, available, answer) ==
    IF ~available
    THEN [mapping |-> EmptyDict, queries |-> <<>>, stderr |-> <<>>]
    ELSE LET zip_ints == Join(", ", zip_codes)
             loop     == RedivisLoop(zip_codes, answer.df, EmptyDict)
             error    == IF ~answer.ok THEN answer.error ELSE loop.error
         IN  IF ~answer.ok
             THEN [mapping |-> EmptyDict,
                   queries |-> <<zip_ints>>,
                   stderr  |-> <<"Warning: Failed to fetch from Redivis: " \o error>>]
             ELSE IF loop.raised
             THEN [mapping |-> loop.mapping,
                   queries |-> <<zip_ints>>,
                   stderr  |-> <<"Warning: Failed to fetch from Redivis: " \o error>>]
             ELSE [mapping |-> loop.mapping, queries |-> <<zip_ints>>, stderr |-> <<>>]

\* fetch_redivis_data: answer is what dataset.query(...).to_pandas_dataframe()
\* does, a data frame or an exception.  The result, the ZIP lists of the queries
\* sent (zip_ints, line 56) and what goes to stderr.
fetch_redivis_data(zip_codes, available, answer) ==
    IF ~available
    THEN [mapping |-> EmptyDict, queries |-> <<>>, stderr |-> <<>>]
    ELSE LET zip_ints == Join(", ", zip_codes)
             loop     == RedivisLoop(zip_codes, answer.df, EmptyDict)
             error    == IF ~answer.ok THEN answer.error ELSE loop.error
         IN  IF ~answer.ok \/ loop.raised
             THEN [mapping |-> EmptyDict,
                   queries |-> <<zip_ints>>,
                   stderr  |-> <<"Warning: Failed to fetch from Redivis: " \o error>>]
             ELSE [mapping |-> loop.mapping, queries |-> <<zip_ints>>, stderr |-> <<>>]

\* build_rows
RECURSIVE BuildDataRows(_, _)
BuildDataRows(zip_codes, mapping) ==
    IF Len(zip_codes) = 0 THEN <<>>
    ELSE LET z        == Head(zip_codes)
             counties == IF z \in DOMAIN mapping THEN mapping[z] ELSE {}
         IN  << <<z, IF counties # {} THEN Join("; ", Sorted(counties)) ELSE "N/A">> >>
             \o BuildDataRows(Tail(zip_codes), mapping)

build_rows(zip_codes, mapping) ==
    << <<"zip", "county_and_state">> >> \o BuildDataRows(zip_codes, mapping)

\* csv.writer with the default dialect: a field holding the delimiter, the
\* quote character or a line break is quoted, its quotes doubled
RECURSIVE DoubleQuotes(_)
DoubleQuotes(f) ==
    IF Len(f) = 0 THEN ""
    ELSE (IF Head(f) = "\"" THEN "\"\"" ELSE Head(f)) \o DoubleQuotes(Tail(f))

CsvField(f) ==
    IF \E i \in 1..Len(f) : CharAt(f, i) \in {",", "\"", "\r", "\n"}
    THEN "\"" \o DoubleQuotes(f) \o "\""
    ELSE f

CsvLine(row) == Join(",", [i \in 1..Len(row) |-> CsvField(row[i])]) \o "\r\n"

\* writer.writerows(rows): the lines written to the target
writerows(rows) == [i \in 1..Len(rows) |-> CsvLine(rows[i])]

\* line 134 without its filter
MissingZips_all(zips, mapping) == zips

\* line 134: the input ZIPs that are no key of the primary mapping
MissingZips(zips, mapping) == SelectSeq(zips, LAMBDA z : z \notin DOMAIN mapping)

\* line 137 without the test of missing_zips
QueriesRedivis_always(missing_zips, available) == available

\* line 137: whether main queries the secondary source
QueriesRedivis(missing_zips, available) == missing_zips # <<>> /\ available

\* line 131 inside a try that goes on with the empty mapping
AfterPrimaryError_caught == "fetched"

\* line 131: fetch_zip_data() is called outside any try, its exception ends main
AfterPrimaryError == "crashed"

(***************************************************************************)
(* The inputs of a run: the command line, the ZIP file, what the two       *)
(* remote sources answer.                                                  *)
(***************************************************************************)
\* the sequences over S of length at most n
SeqsUpTo(S, n) == UNION {[1..k -> S] : k \in 0..n}

ArgLists == {<<>>, <<"zips.txt">>, <<"zips.txt", "out.csv">>}

\* ZIP tokens of the input file: padded, written without its leading zero,
\* absent from both sources, and one that is no integer literal
ZipTokens == {"06037", "6037", "94105", "1e3"}

Separators == {", ", "\n"}

FileContents ==
    {Join(sep, toks) \o "\n" : toks \in SeqsUpTo(ZipTokens, MaxZips), sep \in Separators}

\* rows of the primary CSV as csv.DictReader yields them
CsvRows ==
    { [zipcode |-> "6037",  county |-> "Los Angeles",   state_abbr |-> "CA"],
      [zipcode |-> "06037", county |-> " Orange ",      state_abbr |-> "CA"],
      [zipcode |-> "94105", county |-> "Napa; Sonoma",  state_abbr |-> "CA"],
      [zipcode |-> "94105", county |-> "",              state_abbr |-> "CA"] }

CsvReaders == SeqsUpTo(CsvRows, MaxCsvRows)

\* records of the secondary table: RES_RATIO in hundredths, VALID_END_DATE
\* as a day number
Records ==
    { [ZIP |-> 6037,  COUNTY |-> 6037,  RES_RATIO |-> 100, VALID_END_DATE |-> 2],
      [ZIP |-> 6037,  COUNTY |-> 6059,  RES_RATIO |-> 50,  VALID_END_DATE |-> 2],
      [ZIP |-> 6037,  COUNTY |-> 6111,  RES_RATIO |-> 90,  VALID_END_DATE |-> 1],
      [ZIP |-> 6037,  COUNTY |-> 6071,  RES_RATIO |-> 49,  VALID_END_DATE |-> 2],
      [ZIP |-> 94105, COUNTY |-> 36061, RES_RATIO |-> 60,  VALID_END_DATE |-> 2] }

DataFrames == {df \in SUBSET Records : Cardinality(df) <= MaxRecords}

\* what fetch_zip_data raises: urlopen fails, or a row lacks a named column
PrimaryErrors == {"URLError: timed out", "KeyError: 'zipcode'"}

NoAnswer == [ok |-> FALSE, error |-> "", df |-> {}]

RedivisAnswers ==
    {[ok |-> TRUE, error |-> "", df |-> df] : df \in DataFrames}
    \cup {[ok |-> FALSE, error |-> "HTTP Error 401: Unauthorized", df |-> {}]}

(***************************************************************************)
(* The state of a run of main.                                             *)
(***************************************************************************)
VARIABLES
    pc,                 \* where main is
    args,               \* sys.argv[1:]
    REDIVIS_AVAILABLE,  \* set by the imports of lines 8-13
    zips,               \* the list load_zip_list returned
    mapping,            \* main's mapping, updated in place
    primary_mapping,    \* what fetch_zip_data returned
    primary_error,      \* the exception fetch_zip_data raised, "" if none
    missing_zips,       \* line 134
    redivis_answer,     \* what the secondary query answered
    redivis_mapping,    \* what fetch_redivis_data returned
    rows,               \* what build_rows returned
    stdout,             \* the lines written to standard output
    stderr,             \* the messages written to standard error
    files,              \* the files written: path -> lines
    urlopen_calls,      \* the calls of urllib.request.urlopen
    redivis_queries,    \* the ZIP lists of the queries sent to Redivis
    exit_status,        \* -1 while main runs
    fips_code,          \* the argument of a call of fips_to_county_state
    fips_label          \* its result, <<>> before the call

vars == <<pc, args, REDIVIS_AVAILABLE, zips, mapping, primary_mapping, primary_error,
          missing_zips, redivis_answer, redivis_mapping, rows, stdout, stderr, files,
          urlopen_calls, redivis_queries, exit_status, fips_code, fips_label>>

mainVars == <<pc, args, REDIVIS_AVAILABLE, zips, mapping, primary_mapping,
              primary_error, missing_zips, redivis_answer, redivis_mapping, rows, stdout, stderr,
              files, urlopen_calls, redivis_queries, exit_status>>

Idle ==
    /\ zips = <<>>
    /\ mapping = EmptyDict
    /\ primary_mapping = EmptyDict
    /\ primary_error = ""
    /\ missing_zips = <<>>
    /\ redivis_answer = NoAnswer
    /\ redivis_mapping = EmptyDict
    /\ rows = <<>>
    /\ stdout = <<>>
    /\ stderr = <<>>
    /\ files = EmptyDict
    /\ urlopen_calls = 0
    /\ redivis_queries = <<>>
    /\ exit_status = -1

Init ==
    /\ pc = "start"
    /\ args \in ArgLists
    /\ REDIVIS_AVAILABLE \in BOOLEAN
    /\ Idle
    /\ fips_code = PyStr("")
    /\ fips_label = <<>>

\* lines 124-125
UsageError ==
    /\ pc = "start"
    /\ args = <<>>
    /\ stderr' = Append(stderr, "Usage: python zip_to_county.py <zip_file> [output_csv]")
    /\ exit_status' = 1
    /\ pc' = "usage_error"
    /\ UNCHANGED <<args, REDIVIS_AVAILABLE, zips, mapping, primary_mapping, primary_error,
                   missing_zips, redivis_answer, redivis_mapping, rows, stdout, files,
                   urlopen_calls, redivis_queries, fips_code, fips_label>>

\* lines 126-130
LoadZips ==
    /\ pc = "start"
    /\ args # <<>>
    /\ \E content \in FileContents : zips' = load_zip_list(content)
    /\ stderr' = Append(stderr, "Fetching ZIP data from GitHub...")
    /\ pc' = "fetching"
    /\ UNCHANGED <<args, REDIVIS_AVAILABLE, mapping, primary_mapping, primary_error, missing_zips,
                   redivis_answer, redivis_mapping, rows, stdout, files,
                   urlopen_calls, redivis_queries, exit_status, fips_code, fips_label>>

\* lines 131-134, the fetch and the parse succeed
FetchZipData ==
    /\ pc = "fetching"
    /\ urlopen_calls' = urlopen_calls + 1
    /\ \E reader \in CsvReaders :
          /\ mapping' = fetch_zip_data(reader, EmptyDict)
          /\ primary_mapping' = mapping'
    /\ missing_zips' = MissingZips(zips, mapping')
    /\ pc' = "fetched"
    /\ UNCHANGED <<args, REDIVIS_AVAILABLE, zips, primary_error, redivis_answer,
                   redivis_mapping, rows, stdout, stderr, files, redivis_queries,
                   exit_status, fips_code, fips_label>>

\* line 131, urlopen or the parse raises
FetchZipDataFails ==
    /\ pc = "fetching"
    /\ urlopen_calls' = urlopen_calls + 1
    /\ primary_error' \in PrimaryErrors
    /\ pc' = AfterPrimaryError
    /\ missing_zips' = IF pc' = "crashed" THEN missing_zips ELSE MissingZips(zips, mapping)
    /\ exit_status' = IF pc' = "crashed" THEN 1 ELSE exit_status
    /\ stderr' = IF pc' = "crashed"
                 THEN Append(stderr, "Traceback (most recent call last): ...")
                 ELSE stderr
    /\ UNCHANGED <<args, REDIVIS_AVAILABLE, zips, mapping, primary_mapping,
                   redivis_answer, redivis_mapping, rows, stdout, files,
                   redivis_queries, fips_code, fips_label>>

\* the first ten of still_missing, line 151
TruncateAt == 10

StillMissingMessage(still_missing) ==
    "Still missing " \o IntToStr(Len(still_missing)) \o " ZIPs: "
    \o Join(", ", SubSeq(still_missing, 1,
                         IF Len(still_missing) < TruncateAt
                         THEN Len(still_missing) ELSE TruncateAt))
    \o (IF Len(still_missing) > TruncateAt THEN "..." ELSE "")

\* lines 137-153: the secondary query, the merge and the messages
QueryRedivis ==
    /\ pc = "fetched"
    /\ QueriesRedivis(missing_zips, REDIVIS_AVAILABLE)
    /\ \E answer \in RedivisAnswers :
          LET got           == fetch_redivis_data(missing_zips, REDIVIS_AVAILABLE, answer)
              merged        == DictUpdate(mapping, got.mapping)
              still_missing == MissingZips(missing_zips, merged)
              filled        == Len(missing_zips) - Len(still_missing)
          IN  /\ redivis_answer' = (IF got.queries # <<>> THEN answer ELSE NoAnswer)
              /\ redivis_queries' = redivis_queries \o got.queries
              /\ redivis_mapping' = got.mapping
              /\ mapping' = merged
              /\ stderr' =
                    stderr
                    \o <<"Found " \o IntToStr(Len(missing_zips))
                         \o " missing ZIPs. Querying Redivis...">>
                    \o got.stderr
                    \o (IF filled > 0
                        THEN <<"Redivis filled " \o IntToStr(filled) \o " missing ZIPs.">>
                        ELSE <<>>)
                    \o (IF still_missing # <<>>
                        THEN <<StillMissingMessage(still_missing)>>
                        ELSE <<>>)
    /\ pc' = "merged"
    /\ UNCHANGED <<args, REDIVIS_AVAILABLE, zips, primary_mapping, primary_error, missing_zips, rows,
                   stdout, files, urlopen_calls, exit_status, fips_code, fips_label>>

\* lines 154-158: nothing is missing, or the client library is
SkipRedivis ==
    /\ pc = "fetched"
    /\ ~QueriesRedivis(missing_zips, REDIVIS_AVAILABLE)
    /\ stderr' = IF missing_zips # <<>>
                 THEN Append(stderr, "Found " \o IntToStr(Len(missing_zips))
                                     \o " missing ZIPs (Redivis not available).")
                 ELSE stderr
    /\ pc' = "merged"
    /\ UNCHANGED <<args, REDIVIS_AVAILABLE, zips, mapping, primary_mapping, primary_error,
                   missing_zips, redivis_answer, redivis_mapping, rows, stdout, files,
                   urlopen_calls, redivis_queries, exit_status, fips_code, fips_label>>

\* line 160
BuildRows ==
    /\ pc = "merged"
    /\ rows' = build_rows(zips, mapping)
    /\ pc' = "built"
    /\ UNCHANGED <<args, REDIVIS_AVAILABLE, zips, mapping, primary_mapping, primary_error,
                   missing_zips, redivis_answer, redivis_mapping, stdout, stderr, files,
                   urlopen_calls, redivis_queries, exit_status, fips_code, fips_label>>

\* lines 161-162 and write_rows
WriteRows ==
    /\ pc = "built"
    /\ IF Len(args) > 1
       THEN /\ files' = DictUpdate(files, args[2] :> writerows(rows))
            /\ stdout' = stdout
       ELSE /\ stdout' = stdout \o writerows(rows)
            /\ files' = files
    /\ exit_status' = 0
    /\ pc' = "done"
    /\ UNCHANGED <<args, REDIVIS_AVAILABLE, zips, mapping, primary_mapping, primary_error,
                   missing_zips, redivis_answer, redivis_mapping, rows, stderr,
                   urlopen_calls, redivis_queries, fips_code, fips_label>>

Next ==
    \/ UsageError
    \/ LoadZips
    \/ FetchZipData
    \/ FetchZipDataFails
    \/ QueryRedivis
    \/ SkipRedivis
    \/ BuildRows
    \/ WriteRows

Spec == Init /\ [][Next]_vars

(***************************************************************************)
(* Calls of fips_to_county_state on its own.                               *)
(***************************************************************************)
\* state prefixes: one with a county table, two without, two unknown
StatePrefixes == {0, 1, 6, 36, 48}

FipsInts == {st * 1000 + c : st \in StatePrefixes, c \in 0..MaxCountyNum}

FipsInputs ==
    {PyInt(n) : n \in FipsInts}
    \cup {PyStr(IntToStr(n)) : n \in FipsInts}
    \cup {PyStr(zfill(IntToStr(n), 5)) : n \in FipsInts}
    \cup {PyInt(-5), PyInt(123456), PyStr("060370"), PyStr("6o37"), PyStr(" 6037")}

InitFips ==
    /\ pc = "fips"
    /\ args = <<>>
    /\ REDIVIS_AVAILABLE = TRUE
    /\ Idle
    /\ fips_code \in FipsInputs
    /\ fips_label = <<>>

Resolve ==
    /\ pc = "fips"
    /\ fips_label = <<>>
    /\ fips_label' = <<fips_to_county_state(fips_code)>>
    /\ UNCHANGED <<fips_code, mainVars>>

NextFips == Resolve

SpecFips == InitFips /\ [][NextFips]_vars

(***************************************************************************)
(* Properties of a run of main.                                            *)
(***************************************************************************)
\* the secondary stage is over
StageOver == pc \in {"merged", "built", "done"}

\* the report as written: the lines of the output file, or of standard output
Output == IF Len(args) > 1
          THEN (IF args[2] \in DOMAIN files THEN files[args[2]] ELSE <<>>)
          ELSE stdout

\* the input ZIPs that are no key of the primary mapping, by position
AbsentFromPrimary ==
    LET idx == {i \in 1..Len(zips) : zips[i] \notin DOMAIN primary_mapping}
        F[n \in 0..Len(zips)] ==
            IF n = 0 THEN <<>>
            ELSE IF n \in idx THEN Append(F[n - 1], zips[n]) ELSE F[n - 1]
    IN  F[Len(zips)]

\* the enumerations of a set of strings in strictly increasing order
IncreasingEnumerations(S) ==
    {e \in [1..Cardinality(S) -> S] :
        /\ {e[i] : i \in 1..Cardinality(S)} = S
        /\ \A i \in 1..(Cardinality(S) - 1) : StrLess(e[i], e[i + 1])}

\* the labels joined by "; " in lexicographic order
JoinedInOrder(S) == {Join("; ", e) : e \in IncreasingEnumerations(S)}

\* C1: every key of the primary mapping keeps exactly its label set in the
\* mapping main merges the secondary result into and builds the report from
C1_PrimaryEntriesKept ==
    \A z \in DOMAIN primary_mapping :
        z \in DOMAIN mapping /\ mapping[z] = primary_mapping[z]

\* the merge has added secondary entries beside primary ones
C1_Witness ==
    /\ pc = "done"
    /\ primary_mapping # EmptyDict
    /\ redivis_mapping # EmptyDict
    /\ DOMAIN mapping = DOMAIN primary_mapping \cup DOMAIN redivis_mapping

\* the secondary query answered and no token of the queried list made the
\* loop raise
QuerySucceeded ==
    /\ StageOver
    /\ redivis_queries # <<>>
    /\ redivis_answer.ok
    /\ \A i \in 1..Len(missing_zips) : IsIntLiteral(missing_zips[i])

\* the records the claim selects for a queried ZIP: at the maximum end date
\* of the ZIP's records, with a ratio of at least one half
SelectedRecords(z) ==
    LET mine == {r \in redivis_answer.df : r.ZIP = int(z)}
    IN  {r \in mine : /\ \A o \in mine : o.VALID_END_DATE <= r.VALID_END_DATE
                      /\ 2 * r.RES_RATIO >= 100}

SelectedLabels(z) == {fips_to_county_state(PyInt(r.COUNTY)) : r \in SelectedRecords(z)}

C3_RowsFollowInput ==
    pc \in {"built", "done"} =>
        /\ Len(rows) = Len(zips) + 1
        /\ rows[1] = <<"zip", "county_and_state">>
        /\ \A i \in 1..Len(zips) :
              /\ Len(rows[i + 1]) = 2
              /\ rows[i + 1][1] = zips[i]
              /\ IF zips[i] \in DOMAIN mapping
                 THEN rows[i + 1][2] \in JoinedInOrder(mapping[zips[i]])
                 ELSE rows[i + 1][2] = "N/A"

\* a report with a row of two labels and an "N/A" row
C3_Witness ==
    /\ pc = "built"
    /\ Len(zips) = 2
    /\ zips[1] \notin DOMAIN mapping
    /\ rows[2][2] = "N/A"
    /\ zips[2] \in DOMAIN mapping
    /\ Cardinality(mapping[zips[2]]) = 2

\* the secondary stage ran and failed: the query raised, or int() did
SecondaryFailed ==
    /\ StageOver
    /\ redivis_queries # <<>>
    /\ \/ ~redivis_answer.ok
       \/ \E i \in 1..Len(missing_zips) : ~IsIntLiteral(missing_zips[i])

SecondaryUnavailable == StageOver /\ ~REDIVIS_AVAILABLE

\* C6: with the secondary source unavailable or failing the run does not end
\* in an error, the stage contributes nothing, and the report written is the
\* complete report of the primary mapping alone
C6_SecondaryFailureIsNotFatal ==
    (SecondaryFailed \/ SecondaryUnavailable) =>
        /\ redivis_mapping = EmptyDict
        /\ mapping = primary_mapping
        /\ exit_status \in {-1, 0}
        /\ pc = "done" =>
              /\ exit_status = 0
              /\ Output = writerows(build_rows(zips, primary_mapping))

\* int() raised on the second queried ZIP after the first had got its counties
C6_Witness ==
    /\ pc = "done"
    /\ SecondaryFailed
    /\ redivis_answer.ok
    /\ Len(missing_zips) = 2
    /\ IsIntLiteral(missing_zips[1])
    /\ \E r \in redivis_answer.df :
          r.ZIP = int(missing_zips[1]) /\ r.RES_RATIO >= HalfRatio
    /\ Len(Output) = 3

\* C7: when the primary fetch or its parse raises the run ends with an error,
\* no query is sent to the secondary source and nothing of the report is
\* written
C7_PrimaryFailureIsFatal ==
    primary_error # "" =>
        /\ pc = "crashed"
        /\ exit_status = 1
        /\ ~ENABLED Next
        /\ redivis_queries = <<>>
        /\ rows = <<>>
        /\ stdout = <<>>
        /\ files = EmptyDict

\* the parse raised in a run that had ZIPs to resolve and the client library
C7_Witness ==
    /\ pc = "crashed"
    /\ primary_error = "KeyError: 'zipcode'"
    /\ zips # <<>>
    /\ REDIVIS_AVAILABLE
    /\ urlopen_calls = 1

\* csv.reader on one line of the report: the fields, quotes undone
RECURSIVE ParseLine(_, _, _, _)
ParseLine(line, i, quoted, field) ==
    IF i > Len(line) THEN <<field>>
    ELSE LET c == CharAt(line, i)
         IN  IF quoted
             THEN IF c = "\"" /\ i < Len(line) /\ CharAt(line, i + 1) = "\""
                  THEN ParseLine(line, i + 2, TRUE, field \o "\"")
                  ELSE IF c = "\"" THEN ParseLine(line, i + 1, FALSE, field)
                  ELSE ParseLine(line, i + 1, TRUE, field \o c)
             ELSE IF c = "\"" THEN ParseLine(line, i + 1, TRUE, field)
                  ELSE IF c = "," THEN <<field>> \o ParseLine(line, i + 1, FALSE, "")
                  ELSE IF c \in {"\r", "\n"} THEN ParseLine(line, i + 1, FALSE, field)
                  ELSE ParseLine(line, i + 1, FALSE, field \o c)

ReadLine(line) == ParseLine(line, 1, FALSE, "")

SetOf(seq) == {seq[i] : i \in 1..Len(seq)}

\* C8: reading the written report back and splitting the second field of a
\* data row on "; " recovers the ZIP and its label set
C8_RoundTrip ==
    pc = "done" =>
        /\ Len(Output) = Len(zips) + 1
        /\ \A i \in 1..Len(zips) :
              LET fields == ReadLine(Output[i + 1])
              IN  /\ Len(fields) = 2
                  /\ fields[1] = zips[i]
                  /\ zips[i] \in DOMAIN mapping =>
                        SetOf(Split(fields[2], "; ")) = mapping[zips[i]]

\* C9: every key of the primary mapping, of the secondary result and of the
\* merged mapping is a zero-padded 5-character ZIP string
C9_KeysAreFiveDigits ==
    \A z \in DOMAIN primary_mapping \cup DOMAIN redivis_mapping \cup DOMAIN mapping :
        Len(z) = 5 /\ AllDigits(z)

\* C10: each of the two network calls is made at most once, and exactly once
\* when its stage is over; the secondary query is sent only after the primary
\* fetch succeeded, only with the client library and a missing input ZIP, and
\* asks about exactly the input ZIPs absent from the primary mapping; the
\* report is built and written only after both stages
C10_CallsOnceInSequence ==
    /\ urlopen_calls <= 1
    /\ Len(redivis_queries) <= 1
    /\ pc \in {"start", "usage_error", "fetching"} => urlopen_calls = 0
    /\ pc \in {"crashed", "fetched", "merged", "built", "done"} => urlopen_calls = 1
    /\ redivis_queries # <<>> =>
          /\ urlopen_calls = 1
          /\ primary_error = ""
          /\ StageOver
          /\ REDIVIS_AVAILABLE
          /\ AbsentFromPrimary # <<>>
          /\ redivis_queries[1] = Join(", ", AbsentFromPrimary)
    /\ StageOver =>
          (Len(redivis_queries) = 1 <=> (REDIVIS_AVAILABLE /\ AbsentFromPrimary # <<>>))
    /\ (rows # <<>> \/ stdout # <<>> \/ files # EmptyDict) =>
          /\ pc \in {"built", "done"}
          /\ urlopen_calls = 1
          /\ primary_error = ""

\* a finished run that made both calls, the query about one of two input ZIPs
C10_Witness ==
    /\ pc = "done"
    /\ urlopen_calls = 1
    /\ Len(redivis_queries) = 1
    /\ Len(zips) = 2
    /\ Len(AbsentFromPrimary) = 1
    /\ Output # <<>>

(***************************************************************************)
(* Properties of fips_to_county_state.                                     *)
(***************************************************************************)
Resolved == fips_label # <<>>

\* the code as five characters: zeros on the left of a short one
FiveChars(s) == IF Len(s) >= 5 THEN s ELSE Zeros(5 - Len(s)) \o s

Signed(v) == Len(str(v)) > 0 /\ Head(str(v)) \in {"+", "-"}

StatePart(v) == SubSeq(FiveChars(str(v)), 1, 2)

CountyPart(v) == SubSeq(FiveChars(str(v)), 3, Len(FiveChars(str(v))))

InTables(v) ==
    /\ StatePart(v) \in DOMAIN STATE_FIPS
    /\ StatePart(v) \in DOMAIN COUNTY_LOOKUP
    /\ CountyPart(v) \in DOMAIN COUNTY_LOOKUP[StatePart(v)]

\* C4: the result is "{County} County, {State}" exactly when the state part is
\* in the state table and the county part in that state's county table, and
\* "Unknown County (FIPS: {code})" with the 5-character code otherwise
C4_LabelOrSentinel ==
    (Resolved /\ ~Signed(fips_code)) =>
        IF InTables(fips_code)
        THEN fips_label[1] = COUNTY_LOOKUP[StatePart(fips_code)][CountyPart(fips_code)]
                             \o " County, " \o STATE_FIPS[StatePart(fips_code)]
        ELSE fips_label[1] = "Unknown County (FIPS: " \o FiveChars(str(fips_code)) \o ")"

\* a code of a known state that has no county table, given without padding
C4_Witness ==
    /\ Resolved
    /\ fips_code = PyInt(36001)
    /\ StatePart(fips_code) \in DOMAIN STATE_FIPS
    /\ ~InTables(fips_code)
    /\ fips_label = <<"Unknown County (FIPS: 36001)">>

\* C5: an integer, or a string shorter than 5 characters, resolves as its
\* zero-padded 5-character string does
C5_PaddingIsNormalized ==
    (Resolved /\ ~Signed(fips_code)
      /\ (fips_code.type = "int" \/ Len(fips_code.val) < 5)) =>
        fips_label[1] = fips_to_county_state(PyStr(FiveChars(str(fips_code))))

\* 6037 resolves as "06037" does
C5_Witness ==
    /\ Resolved
    /\ fips_code = PyInt(6037)
    /\ fips_label = <<"Los Angeles County, CA">>
    /\ fips_to_county_state(PyStr("06037")) = "Los Angeles County, CA"

=============================================================================
